---- MODULE Spec2Model ----
(***************************************************************************)
(* A model of indices.py (version 0.1): the eager functions indices and    *)
(* irange, the xrange object returned by xindices, and the generator       *)
(* frames created by xirange and enumerate.  Python positions are 0-based; *)
(* TLA+ sequences are 1-based, so position i of a Python list s is s[i+1]. *)
(***************************************************************************)
EXTENDS Integers, Sequences, FiniteSets, TLC

\* ------------------------------------------------------------------ bounds
MaxArgs == 2      \* most sequences passed to one call
MaxLen  == 3      \* longest input sequence
MaxMut  == 1      \* most mutations of the inputs by the caller in one run
MaxIter == 2      \* most iter() calls on one returned value

Handles == {1, 2}          \* two values returned by separate lazy calls
Solo    == {1}             \* the handle used when the caller mutates inputs

\* The inputs hold pairwise distinct elements, so a misplaced element shows;
\* a value the caller writes or appends later is distinct from all of them.
Elem(k, p) == 10 * k + p
NewVals    == {0}

\* ------------------------------------------------------------------ state
VARIABLES
    inputs,      \* the caller's input sequences, as they are now
    ecall,       \* the eager calls made: their arguments and return value
    obj,         \* obj[h]: the value a lazy call returned
    rit,         \* rit[h]: the caller's current iterator over an xrange
    out,         \* out[h]: the items obtained from obj[h], in order
    resp,        \* resp[h]: how the latest request on obj[h] ended
    snap,        \* snap[h]: the inputs as they were when obj[h] was made
    first,       \* first[h]: the inputs as they were at the first request
    dirty,       \* dirty[h]: an input was mutated since obj[h] was made
    drawn,       \* drawn[h]: the values the list iterator of enumerate gave
    nmut         \* mutations made so far

vars == <<inputs, ecall, obj, rit, out, resp, snap, first, dirty, drawn,
          nmut>>

\* ------------------------------------------------------- Python run time
NoL == -1                  \* the local l of a frame that never assigned it
ValueError == -2           \* min() of an empty list raises

PyList(s)  == [type |-> "list", val |-> s]
None       == [type |-> "NoneType", val |-> <<>>]
Raised(e)  == [type |-> e, val |-> <<>>]
Unset      == [type |-> "unset", val |-> <<>>]

\* [len(sequence) for sequence in sequences]
lens(sequences) == [k \in 1..Len(sequences) |-> Len(sequences[k])]

\* the first length taken for the least
pymin_first(list) == IF Len(list) = 0 THEN ValueError ELSE list[1]

\* min(list)
RECURSIVE pymin(_)
pymin(list) ==
    IF Len(list) = 0 THEN ValueError
    ELSE IF Len(list) = 1 THEN list[1]
    ELSE LET r == pymin(Tail(list))
         IN  IF r < list[1] THEN r ELSE list[1]

\* range(n): the list [0, 1, ..., n-1]
RECURSIVE range(_)
range(n) == IF n <= 0 THEN <<>> ELSE Append(range(n - 1), n - 1)

\* the index left out of the tuple
tuple_noindex(sq, i) == [k \in 1..Len(sq) |-> sq[k][i + 1]]

\* the elements taken from a copy of the inputs made at the call
tuple_snapshot(sq, i) ==
    <<i>> \o [k \in 1..Len(sq) |->
                IF i < Len(snap[1][k]) THEN snap[1][k][i + 1] ELSE sq[k][i + 1]]

\* tuple([i] + [sequence[i] for sequence in sequences])
tuple(sequences, i) ==
    <<i>> \o [k \in 1..Len(sequences) |-> sequences[k][i + 1]]

\* sequence[i] raises IndexError for some sequence
IndexError(sequences, i) ==
    \E k \in 1..Len(sequences) : i >= Len(sequences[k])

\* ------------------------------------------------------- eager functions
indices(sequences) ==
    IF Len(sequences) = 0 THEN PyList(range(0))
    ELSE LET m == pymin(lens(sequences))
         IN  IF m = ValueError THEN Raised("ValueError") ELSE PyList(range(m))

\* an empty list returned for no sequences
irange_emptylist(sequences) ==
    IF Len(sequences) > 0
    THEN LET l == pymin(lens(sequences))
         IN  PyList([p \in 1..l |-> tuple(sequences, range(l)[p])])
    ELSE PyList(<<>>)

irange(sequences) ==
    IF Len(sequences) > 0
    THEN LET l == pymin(lens(sequences))
         IN  IF l = ValueError THEN Raised("ValueError")
             ELSE PyList([p \in 1..l |-> tuple(sequences, range(l)[p])])
    ELSE None

\* ------------------------------------------------ values of the lazy calls
\* One record shape for every returned value:
\*   kind  "none" | "xrange" | "xirange" | "enumerate"
\*   st    generator frame: "created" (body not entered), "suspended" (at
\*         the yield), "finished"; an xrange object is always "object"
\*   l     xrange: its length; xirange: the local l (NoL until assigned)
\*   i     generator frame: the local i
\*   arg   enumerate: which input was passed (0 otherwise)
\*   itpos, itlive   enumerate: the list iterator it (position, not exhausted)
NoObj == [kind |-> "none", st |-> "object", l |-> NoL, i |-> 0,
          arg |-> 0, itpos |-> 0, itlive |-> FALSE]

\* xindices returns an xrange object
xindices(sequences) ==
    IF Len(sequences) = 0
    THEN [NoObj EXCEPT !.kind = "xrange", !.l = 0]
    ELSE [NoObj EXCEPT !.kind = "xrange", !.l = pymin(lens(sequences))]

\* calling a generator function runs none of its body
xirange_call == [NoObj EXCEPT !.kind = "xirange", !.st = "created"]

enumerate_call(k) ==
    [NoObj EXCEPT !.kind = "enumerate", !.st = "created", !.arg = k]

\* Outcome of one request: the new frame, the signal, the item (if any)
Outcome(g, r, x) == [g |-> g, resp |-> r, item |-> x]
StopIteration(g) == Outcome([g EXCEPT !.st = "finished"], "stop", <<>>)

\* the access failure swallowed: the generator just ends
xirange_loop_swallow(g, sq, l, i) ==
    IF i < l /\ ~IndexError(sq, i)
    THEN Outcome([g EXCEPT !.st = "suspended", !.l = l, !.i = i],
                 "item", tuple(sq, i))
    ELSE StopIteration([g EXCEPT !.l = l])

\* One request on an xirange generator: resume the frame until it yields,
\* raises, or returns.
xirange_loop(g, sequences, l, i) ==
    IF i < l
    THEN IF IndexError(sequences, i)
         THEN Outcome([g EXCEPT !.st = "finished", !.l = l, !.i = i],
                      "error", <<>>)
         ELSE Outcome([g EXCEPT !.st = "suspended", !.l = l, !.i = i],
                      "item", tuple(sequences, i))
    ELSE StopIteration([g EXCEPT !.l = l])

\* the bound computed again at every step
xirange_next_rebind(g, sq) ==
    CASE g.st \in {"created", "suspended"} ->
            IF Len(sq) > 0
            THEN xirange_loop(g, sq, pymin(lens(sq)),
                              IF g.st = "created" THEN 0 ELSE g.i + 1)
            ELSE StopIteration(g)
      [] OTHER -> StopIteration(g)

xirange_next(g, sequences) ==
    CASE g.st = "created" ->
            IF Len(sequences) > 0
            THEN xirange_loop(g, sequences, pymin(lens(sequences)), 0)
            ELSE StopIteration(g)
      [] g.st = "suspended" -> xirange_loop(g, sequences, g.l, g.i + 1)
      [] OTHER -> StopIteration(g)

\* the index never incremented
enumerate_loop_stuck(g, sequence, i) ==
    IF g.itlive /\ g.itpos < Len(sequence)
    THEN Outcome([g EXCEPT !.st = "suspended", !.itpos = g.itpos + 1],
                 "item", <<g.i, sequence[g.itpos + 1]>>)
    ELSE StopIteration([g EXCEPT !.itlive = FALSE])

\* it.next() of the list iterator, then the yield of enumerate
enumerate_loop(g, sequence, i) ==
    IF g.itlive /\ g.itpos < Len(sequence)
    THEN Outcome([g EXCEPT !.st = "suspended", !.i = i,
                           !.itpos = g.itpos + 1],
                 "item", <<i, sequence[g.itpos + 1]>>)
    ELSE StopIteration([g EXCEPT !.i = i, !.itlive = FALSE])

enumerate_next(g, sequences) ==
    CASE g.st = "created" ->
            enumerate_loop([g EXCEPT !.itpos = 0, !.itlive = TRUE],
                           sequences[g.arg], 0)
      [] g.st = "suspended" -> enumerate_loop(g, sequences[g.arg], g.i + 1)
      [] OTHER -> StopIteration(g)

\* iter(xrange object): a fresh range iterator; n counts the iter() calls
rangeiter_new(r) == [n |-> r.n + 1, index |-> 0]

\* the range iterator counting from 1
rangeiter_next_from1(r, len) ==
    IF r.index < len
    THEN [r |-> [r EXCEPT !.index = r.index + 1], resp |-> "item",
          item |-> r.index + 1]
    ELSE [r |-> r, resp |-> "stop", item |-> 0]

\* next() of a range iterator over an xrange of length len
rangeiter_next(r, len) ==
    IF r.index < len
    THEN [r |-> [r EXCEPT !.index = r.index + 1], resp |-> "item",
          item |-> r.index]
    ELSE [r |-> r, resp |-> "stop", item |-> 0]

\* --------------------------------------------------------- initial state
\* every list of at most MaxArgs sequences of at most MaxLen elements
Inputs ==
    UNION {{[k \in 1..n |-> [p \in 1..len[k] |-> Elem(k, p)]] :
               len \in [1..n -> 0..MaxLen]} : n \in 0..MaxArgs}

Init ==
    /\ inputs \in Inputs
    /\ ecall = [f \in {"indices", "irange"} |-> [args |-> <<>>, ret |-> Unset]]
    /\ obj = [h \in Handles |-> NoObj]
    /\ rit = [h \in Handles |-> [n |-> 0, index |-> 0]]
    /\ out = [h \in Handles |-> <<>>]
    /\ resp = [h \in Handles |-> "none"]
    /\ snap = [h \in Handles |-> <<>>]
    /\ first = [h \in Handles |-> <<>>]
    /\ dirty = [h \in Handles |-> FALSE]
    /\ drawn = [h \in Handles |-> <<>>]
    /\ nmut = 0

\* ---------------------------------------------------------------- actions
CallIndices ==
    /\ ecall["indices"].ret = Unset
    /\ ecall' = [ecall EXCEPT !["indices"] =
                    [args |-> inputs, ret |-> indices(inputs)]]
    /\ UNCHANGED <<inputs, obj, rit, out, resp, snap, first, dirty, drawn,
                   nmut>>

CallIrange ==
    /\ ecall["irange"].ret = Unset
    /\ ecall' = [ecall EXCEPT !["irange"] =
                    [args |-> inputs, ret |-> irange(inputs)]]
    /\ UNCHANGED <<inputs, obj, rit, out, resp, snap, first, dirty, drawn,
                   nmut>>

Made(h, o) ==
    /\ obj[h].kind = "none"
    /\ obj' = [obj EXCEPT ![h] = o]
    /\ snap' = [snap EXCEPT ![h] = inputs]
    /\ UNCHANGED <<inputs, ecall, rit, out, resp, first, dirty, drawn,
                   nmut>>

CallXindices(h) == Made(h, xindices(inputs))

CallXirange(h) == Made(h, xirange_call)

CallEnumerate(h) ==
    \E k \in 1..Len(inputs) : Made(h, enumerate_call(k))

\* iter(obj[h]) on the xrange object: a new iterator each time
Iter(h) ==
    /\ obj[h].kind = "xrange"
    /\ rit[h].n < MaxIter
    /\ rit' = [rit EXCEPT ![h] = rangeiter_new(rit[h])]
    /\ UNCHANGED <<inputs, ecall, obj, out, resp, snap, first, dirty,
                   drawn, nmut>>

Deliver(h, o) ==
    /\ resp' = [resp EXCEPT ![h] = o.resp]
    /\ out' = [out EXCEPT ![h] =
                 IF o.resp = "item" THEN Append(out[h], o.item) ELSE out[h]]

NextXrange(h) ==
    /\ obj[h].kind = "xrange"
    /\ rit[h].n > 0
    /\ LET o == rangeiter_next(rit[h], obj[h].l)
       IN  /\ rit' = [rit EXCEPT ![h] = o.r]
           /\ Deliver(h, o)
    /\ UNCHANGED <<inputs, ecall, obj, snap, first, dirty, drawn, nmut>>

\* one frame shared by every generator
frame_shared(h) == obj[1]

\* the frame of the generator obj[h]: its own locals l and i
frame(h) == obj[h]

NextXirange(h) ==
    /\ obj[h].kind = "xirange"
    /\ LET o == xirange_next(frame(h), inputs)
       IN  /\ obj' = [obj EXCEPT ![h] = o.g]
           /\ Deliver(h, o)
    /\ first' = [first EXCEPT ![h] =
                   IF obj[h].st = "created" THEN inputs ELSE first[h]]
    /\ UNCHANGED <<inputs, ecall, rit, snap, dirty, drawn, nmut>>

NextEnumerate(h) ==
    /\ obj[h].kind = "enumerate"
    /\ LET o == enumerate_next(obj[h], inputs)
       IN  /\ obj' = [obj EXCEPT ![h] = o.g]
           /\ Deliver(h, o)
           /\ drawn' = [drawn EXCEPT ![h] =
                          IF o.g.itpos > obj[h].itpos
                          THEN Append(drawn[h], inputs[obj[h].arg][o.g.itpos])
                          ELSE drawn[h]]
    /\ UNCHANGED <<inputs, ecall, rit, snap, first, dirty, nmut>>

\* The caller mutates an input list between two requests.
Mutated(new) ==
    /\ nmut < MaxMut
    /\ inputs' = new
    /\ nmut' = nmut + 1
    /\ dirty' = [h \in Handles |-> dirty[h] \/ obj[h].kind # "none"]
    /\ UNCHANGED <<ecall, obj, rit, out, resp, snap, first, drawn>>

\* inputs[k][p] = v
Write(k, p, v) ==
    /\ inputs[k][p] # v
    /\ Mutated([inputs EXCEPT ![k][p] = v])

\* del inputs[k][-1]
Pop(k) ==
    /\ Len(inputs[k]) > 0
    /\ Mutated([inputs EXCEPT ![k] =
                   SubSeq(inputs[k], 1, Len(inputs[k]) - 1)])

\* inputs[k].append(v)
AppendElem(k, v) ==
    /\ Len(inputs[k]) < MaxLen
    /\ Mutated([inputs EXCEPT ![k] = Append(inputs[k], v)])

\* One returned value, requested step by step while the caller may mutate
\* the inputs between two steps.
Next ==
    \/ \E h \in Solo : CallXindices(h)
    \/ \E h \in Solo : CallXirange(h)
    \/ \E h \in Solo : CallEnumerate(h)
    \/ \E h \in Solo : Iter(h)
    \/ \E h \in Solo : NextXrange(h)
    \/ \E h \in Solo : NextXirange(h)
    \/ \E h \in Solo : NextEnumerate(h)
    \/ \E k \in 1..Len(inputs) : \E p \in 1..Len(inputs[k]) :
          \E v \in NewVals : Write(k, p, v)
    \/ \E k \in 1..Len(inputs) : Pop(k)
    \/ \E k \in 1..Len(inputs) : \E v \in NewVals : AppendElem(k, v)

Spec == Init /\ [][Next]_vars

\* The eager calls and two lazy values over the same, unmutated inputs, their
\* requests interleaved in every order.
NextPair ==
    \/ CallIndices
    \/ CallIrange
    \/ \E h \in Handles : CallXindices(h)
    \/ \E h \in Handles : CallXirange(h)
    \/ \E h \in Handles : Iter(h)
    \/ \E h \in Handles : NextXrange(h)
    \/ \E h \in Handles : NextXirange(h)

SpecPair == Init /\ [][NextPair]_vars
\* ------------------------------------------------------------ properties
\* the least length among sq, 0 for no sequences
MinLen(sq) ==
    IF Len(sq) = 0 THEN 0
    ELSE CHOOSE m \in {Len(sq[k]) : k \in 1..Len(sq)} :
            \A k \in 1..Len(sq) : m <= Len(sq[k])

IsPrefix(a, b) == Len(a) <= Len(b) /\ a = SubSeq(b, 1, Len(a))

\* the item for position i over the inputs sq: (i, sq[1][i], ..., sq[n][i])
IsItem(t, sq, i) ==
    /\ Len(t) = Len(sq) + 1
    /\ t[1] = i
    /\ \A k \in 1..Len(sq) : t[k + 1] = sq[k][i + 1]

\* C1: indices(S1..Sn) returns the list [0, 1, ..., m-1], m the least of the
\* lengths and 0 for n = 0.
C1_IndicesIsCommonRange ==
    LET c == ecall["indices"]
    IN  c.ret # Unset =>
            /\ c.ret.type = "list"
            /\ Len(c.ret.val) = MinLen(c.args)
            /\ \A p \in 1..Len(c.ret.val) : c.ret.val[p] = p - 1

\* indices([e, e, e], [e, e]) has returned: the case of the docstring
C1_Witness ==
    LET c == ecall["indices"]
    IN  /\ c.ret # Unset
        /\ Len(c.args) = 2
        /\ Len(c.args[1]) = 3
        /\ Len(c.args[2]) = 2
        /\ c.ret.val = <<0, 1>>

Drained(h) ==
    /\ obj[h].kind \in {"xrange", "xirange"}
    /\ resp[h] = "stop"
    /\ ~dirty[h]
    /\ obj[h].kind = "xrange" => rit[h].n = 1

\* C3 as stated: for every n >= 0 the drained lazy variant equals the eager
\* variant's result on the same inputs.
C3_Original ==
    \A h \in Handles :
        Drained(h) =>
            PyList(out[h]) = IF obj[h].kind = "xrange" THEN indices(snap[h])
                             ELSE irange(snap[h])

\* C3 amended: draining xindices(S1..Sn) equals indices(S1..Sn) for every
\* n >= 0; draining xirange(S1..Sn) equals irange(S1..Sn) for every n >= 1,
\* while for n = 0 xirange yields no item and irange returns None.
C3_DrainedEqualsEager ==
    \A h \in Handles :
        Drained(h) =>
            /\ obj[h].kind = "xrange" => PyList(out[h]) = indices(snap[h])
            /\ obj[h].kind = "xirange" /\ Len(snap[h]) >= 1 =>
                   PyList(out[h]) = irange(snap[h])
            /\ obj[h].kind = "xirange" /\ Len(snap[h]) = 0 =>
                   out[h] = <<>> /\ irange(snap[h]) = None

\* xirange over two inputs of different lengths was drained to two items
C3_Witness ==
    \E h \in Handles :
        /\ Drained(h)
        /\ obj[h].kind = "xirange"
        /\ Len(snap[h]) = 2
        /\ Len(snap[h][1]) # Len(snap[h][2])
        /\ Len(out[h]) = 2

\* C4: the k-th request on enumerate(seq) gives (k, e_k), e_k the k-th value
\* of seq's iterator, and the enumeration ends normally exactly when that
\* iterator is exhausted: an unmutated input of L values gives L pairs, then
\* termination.
C4_Enumerate ==
    \A h \in Handles :
        obj[h].kind = "enumerate" =>
            /\ Len(out[h]) = Len(drawn[h])
            /\ \A p \in 1..Len(out[h]) : out[h][p] = <<p - 1, drawn[h][p]>>
            /\ resp[h] # "error"
            /\ (resp[h] = "stop") <=> (obj[h].st = "finished")
            /\ (obj[h].st = "finished") <=>
                   (obj[h].st # "created" /\ ~obj[h].itlive)
            /\ ~dirty[h] =>
                   LET seq == snap[h][obj[h].arg]
                   IN  /\ Len(out[h]) <= Len(seq)
                       /\ \A p \in 1..Len(out[h]) :
                             out[h][p] = <<p - 1, seq[p]>>
                       /\ resp[h] = "stop" => Len(out[h]) = Len(seq)

\* enumerate over three values gave its three pairs and then terminated
C4_Witness ==
    \E h \in Handles :
        /\ obj[h].kind = "enumerate"
        /\ ~dirty[h]
        /\ Len(out[h]) = 3
        /\ resp[h] = "stop"

\* C5 as stated: for xindices and xirange the bound is the least input
\* length at the moment of the call, whatever happens to the inputs later.
C5_Original ==
    \A h \in Handles :
        /\ obj[h].kind = "xrange" => obj[h].l = MinLen(snap[h])
        /\ obj[h].kind = "xirange" /\ obj[h].st # "created"
               /\ Len(snap[h]) > 0 =>
               obj[h].l = MinLen(snap[h])

\* C5 amended: the bound of xindices is the least input length at the moment
\* of the call; the bound of xirange is the least input length at the moment
\* of the first request (a change of length between the call and the first
\* request is reflected); neither is recomputed afterwards.
C5_BoundFixedOnce ==
    \A h \in Handles :
        /\ obj[h].kind = "xrange" => obj[h].l = MinLen(snap[h])
        /\ obj[h].kind = "xirange" =>
               IF obj[h].st = "created" \/ Len(first[h]) = 0
               THEN obj[h].l = NoL
               ELSE obj[h].l = MinLen(first[h])

\* xirange bound its length at the first request, after the inputs had
\* changed length since the call
C5_Witness ==
    \E h \in Handles :
        /\ obj[h].kind = "xirange"
        /\ obj[h].st # "created"
        /\ obj[h].l = MinLen(first[h])
        /\ obj[h].l # MinLen(snap[h])

\* C6: every step of xirange reads its elements when it executes: the tuple
\* it appends for position i holds the inputs' elements as they are at that
\* step, and the tuples already produced stay as they were.
C6_LazyRead ==
    [][\A h \in Handles :
          obj[h].kind = "xirange" /\ out'[h] # out[h] =>
              /\ Len(out'[h]) = Len(out[h]) + 1
              /\ SubSeq(out'[h], 1, Len(out[h])) = out[h]
              /\ IsItem(out'[h][Len(out'[h])], inputs, Len(out[h]))]_vars

\* a value written to a position after the call shows in the tuple produced
\* for that position, after an earlier tuple
C6_Witness ==
    \E h \in Handles :
        /\ obj[h].kind = "xirange"
        /\ \E p \in 2..Len(out[h]) : \E k \in 1..Len(snap[h]) :
              /\ out[h][p][k + 1] \in NewVals
              /\ p <= Len(snap[h][k])
              /\ snap[h][k][p] \notin NewVals

\* C7: once a request on the value a lazy call returned has signalled
\* termination, every later request on that value signals termination.
C7_Original ==
    [][\A h \in Handles : resp[h] = "stop" => resp'[h] = "stop"]_vars

\* C8: with no input sequences indices() returns the empty list, xindices()
\* an empty lazy sequence, irange() None, and xirange() a generator that is
\* exhausted at its first request and never computes a length; none raises.
C8_ZeroArgs ==
    Len(inputs) = 0 =>
        /\ ecall["indices"].ret \in {Unset, PyList(<<>>)}
        /\ ecall["irange"].ret \in {Unset, None}
        /\ \A h \in Handles :
              /\ out[h] = <<>>
              /\ resp[h] \in {"none", "stop"}
              /\ obj[h].kind = "xrange" => obj[h].l = 0
              /\ obj[h].kind = "xirange" =>
                    /\ obj[h].l = NoL
                    /\ (resp[h] = "stop") <=> (obj[h].st = "finished")
                    /\ obj[h].st \in {"created", "finished"}

\* all four were called with no inputs, and both lazy values requested
C8_Witness ==
    /\ Len(inputs) = 0
    /\ ecall["indices"].ret # Unset
    /\ ecall["irange"].ret # Unset
    /\ \E h, g \in Handles :
          /\ obj[h].kind = "xrange" /\ resp[h] = "stop"
          /\ obj[g].kind = "xirange" /\ resp[g] = "stop"

\* the position a request on the xirange frame g is about, and its bound
StepPos(g) == IF g.st = "created" THEN 0 ELSE g.i + 1
StepBound(g, sq) == IF g.st = "created" THEN MinLen(sq) ELSE g.l

\* C9: a step of xirange whose element access fails surfaces the failure:
\* it signals the error (not termination), produces no tuple for that
\* position and leaves the items of the earlier positions as they were; and
\* it signals an error in no other case.
C9_AccessFailureSurfaces ==
    [][\A h \in Handles :
          obj[h].kind = "xirange" /\ obj[h].st # "finished"
              /\ obj'[h] # obj[h] =>
              LET i == StepPos(obj[h])
                  fails == /\ Len(inputs) > 0
                           /\ i < StepBound(obj[h], inputs)
                           /\ \E k \in 1..Len(inputs) :
                                 Len(inputs[k]) <= i
              IN  /\ fails => /\ resp'[h] = "error"
                              /\ out'[h] = out[h]
                              /\ Len(out[h]) = i
                  /\ resp'[h] = "error" => fails]_vars

\* an input was shortened after the bound was fixed and the step for a
\* position that no longer exists failed, after at least one item
C9_Witness ==
    \E h \in Handles :
        /\ obj[h].kind = "xirange"
        /\ resp[h] = "error"
        /\ Len(out[h]) >= 1
        /\ Len(out[h]) < obj[h].l

RECURSIVE DrainXirange(_, _)
DrainXirange(g, sq) ==
    LET o == xirange_next(g, sq)
    IN  IF o.resp = "item" THEN <<o.item>> \o DrainXirange(o.g, sq) ELSE <<>>

RECURSIVE DrainXrange(_, _)
DrainXrange(r, len) ==
    LET o == rangeiter_next(r, len)
    IN  IF o.resp = "item" THEN <<o.item>> \o DrainXrange(o.r, len) ELSE <<>>

\* what the value made by the call on handle h gives when drained alone
Alone(h) ==
    IF obj[h].kind = "xrange"
    THEN DrainXrange(rangeiter_new(rit[h]), xindices(snap[h]).l)
    ELSE DrainXirange(xirange_call, snap[h])

\* the items of the current pass over obj[h]
CurrentPass(h) ==
    IF obj[h].kind = "xrange"
    THEN SubSeq(out[h], Len(out[h]) - rit[h].index + 1, Len(out[h]))
    ELSE out[h]

\* C10: two lazy values made by separate calls over the same inputs have
\* independent cursors: however their requests interleave, each gives the
\* items, in order, that it gives when drained alone; no call changes an
\* input.
C10_IndependentCursors ==
    /\ \A h \in Handles :
          obj[h].kind # "none" =>
              /\ snap[h] = inputs
              /\ IsPrefix(CurrentPass(h), Alone(h))
              /\ resp[h] = "stop" /\ rit[h].n <= 1 => out[h] = Alone(h)
    /\ \A f \in {"indices", "irange"} :
          ecall[f].ret # Unset => ecall[f].args = inputs

\* two xirange generators over the same inputs, one two items ahead of the
\* other, the slower one having been requested in between
C10_Witness ==
    /\ obj[1].kind = "xirange"
    /\ obj[2].kind = "xirange"
    /\ Len(out[1]) = 3
    /\ Len(out[2]) = 1
    /\ resp[1] = "item"
    /\ resp[2] = "item"
====
